---- MODULE Spec2Model ----
(***************************************************************************)
(* Calculator MCP server (examples/mcp-server-calculator/server.py).       *)
(*                                                                         *)
(* The server registers seven tools (add, subtract, multiply, divide,      *)
(* power, sqrt, calculate).  Every handler is an `async def` without an    *)
(* await inside, so the event loop runs each handler to completion: a      *)
(* handler is one atomic step, and concurrency is the interleaving of the  *)
(* arrival of requests, the handlers and the replies of several clients.   *)
(*                                                                         *)
(* Numbers are exact rationals [t, n, d] (t the Python type, n/d in lowest *)
(* terms).  A value the model cannot represent exactly (magnitude above    *)
(* MaxMagnitude, an irrational power, a rounding tie of a value that is no *)
(* binary fraction) has type "outside"; a request whose handling meets     *)
(* such a value is never issued (guard of Receive).                        *)
(***************************************************************************)
EXTENDS Integers, Sequences, FiniteSets, TLC

VARIABLES MAX_PRECISION, calls

vars == <<MAX_PRECISION, calls>>

(***************************************************************************)
(* The records of the model: a Python value, the outcome of a call, a      *)
(* request, a call slot, the result of parsing.                            *)
(***************************************************************************)
OutsideVal == [t |-> "outside", n |-> 0, d |-> 1]
NoneVal == [t |-> "NoneType", n |-> 0, d |-> 1]
NoOutcome ==
    [kind |-> "none", val |-> NoneVal, exc |-> "none", msg |-> "", applied |-> <<>>]
NoRequest == [tool |-> "none", a |-> 0, b |-> 0, expression |-> <<>>]
Idle == [st |-> "idle", req |-> NoRequest, out |-> NoOutcome]
NoParse == [ok |-> FALSE, node |-> <<>>, rest |-> <<>>]

(***************************************************************************)
(* Bounds of the model.                                                    *)
(***************************************************************************)
\* MAX_PRECISION is read from the environment; the model tries 0..MaxPrecision.
MaxPrecision == 2
\* Tool operands range over the integers -MaxArg..MaxArg.
MaxArg == 3
\* Operands of the interleaving specification range over 1..MaxConcArg.
MaxConcArg == 2
\* Numerators and denominators are kept within MaxMagnitude.
MaxMagnitude == 30000
\* Longest expression, in tokens, of each specification of calculate.
MaxTokens == 5
MaxTokensOps == 4
MaxTokensPow == 5
\* The clients whose requests the host interleaves.
Clients == {1, 2}

(***************************************************************************)
(* Python values.                                                          *)
(***************************************************************************)
Abs(i) == IF i < 0 THEN -i ELSE i

RECURSIVE GCD(_, _)
GCD(a, b) == IF b = 0 THEN a ELSE GCD(b, a % b)

RECURSIVE Pow10(_)
Pow10(k) == IF k = 0 THEN 1 ELSE 10 * Pow10(k - 1)

RECURSIVE IsPowerOfTwo(_)
IsPowerOfTwo(d) == d = 1 \/ (d % 2 = 0 /\ IsPowerOfTwo(d \div 2))

StrVal == [t |-> "str", n |-> 0, d |-> 1]
BoolVal(b) == [t |-> "bool", n |-> b, d |-> 1]
IntVal(i) == [t |-> "int", n |-> i, d |-> 1]

\* The value n/d of type t, in lowest terms, or "outside" beyond MaxMagnitude.
Rat(t, n, d) ==
    LET g == GCD(Abs(n), d)
        nn == n \div g
        dd == d \div g
    IN IF Abs(nn) > MaxMagnitude \/ dd > MaxMagnitude
       THEN OutsideVal
       ELSE [t |-> t, n |-> nn, d |-> dd]

FloatVal(i) == [t |-> "float", n |-> i, d |-> 1]

IsNumber(v) == v.t \in {"int", "float", "bool"}
IsIntLike(v) == v.t \in {"int", "bool"}
IsOutside(v) == v.t = "outside"

\* The type of the result of an arithmetic operator on two numbers.
NumType(l, r) == IF l.t = "float" \/ r.t = "float" THEN "float" ELSE "int"

(***************************************************************************)
(* The result of a computation: a value or a raised exception.  `applied`  *)
(* lists, in order, the operator functions eval_expr has applied.          *)
(***************************************************************************)
Ok(v) == [val |-> v, exc |-> "none", msg |-> "", applied |-> <<>>]
Raise(exc, msg) == [val |-> NoneVal, exc |-> exc, msg |-> msg, applied |-> <<>>]

TypeName(v) == v.t

\* operator.add
operator_add(l, r) ==
    IF IsOutside(l) \/ IsOutside(r) THEN Ok(OutsideVal)
    ELSE IF IsNumber(l) /\ IsNumber(r)
    THEN Ok(Rat(NumType(l, r), l.n * r.d + r.n * l.d, l.d * r.d))
    ELSE IF l.t = "str" /\ r.t = "str" THEN Ok(StrVal)
    ELSE IF l.t = "str"
    THEN Raise("TypeError", "can only concatenate str (not \"" \o TypeName(r) \o "\") to str")
    ELSE Raise("TypeError", "unsupported operand type(s) for +: '"
                             \o TypeName(l) \o "' and '" \o TypeName(r) \o "'")

\* operator.sub
operator_sub(l, r) ==
    IF IsOutside(l) \/ IsOutside(r) THEN Ok(OutsideVal)
    ELSE IF IsNumber(l) /\ IsNumber(r)
    THEN Ok(Rat(NumType(l, r), l.n * r.d - r.n * l.d, l.d * r.d))
    ELSE Raise("TypeError", "unsupported operand type(s) for -: '"
                             \o TypeName(l) \o "' and '" \o TypeName(r) \o "'")

\* operator.mul
operator_mul(l, r) ==
    IF IsOutside(l) \/ IsOutside(r) THEN Ok(OutsideVal)
    ELSE IF IsNumber(l) /\ IsNumber(r)
    THEN Ok(Rat(NumType(l, r), l.n * r.n, l.d * r.d))
    ELSE IF (l.t = "str" /\ IsIntLike(r)) \/ (IsIntLike(l) /\ r.t = "str")
    THEN Ok(StrVal)
    ELSE Raise("TypeError", "can't multiply sequence by non-int of type '"
                             \o (IF l.t = "str" THEN TypeName(r) ELSE TypeName(l)) \o "'")

\* operator.truediv
operator_truediv(l, r) ==
    IF IsOutside(l) \/ IsOutside(r) THEN Ok(OutsideVal)
    ELSE IF IsNumber(l) /\ IsNumber(r)
    THEN IF r.n = 0
         THEN Raise("ZeroDivisionError",
                    IF NumType(l, r) = "float" THEN "float division by zero"
                                               ELSE "division by zero")
         ELSE Ok(Rat("float", (IF r.n < 0 THEN -1 ELSE 1) * l.n * r.d, l.d * Abs(r.n)))
    ELSE Raise("TypeError", "unsupported operand type(s) for /: '"
                             \o TypeName(l) \o "' and '" \o TypeName(r) \o "'")

\* b^e for integers b and e >= 0, or MaxMagnitude + 1 beyond MaxMagnitude
\* (by repeated squaring: b^e = (b^(e div 2))^2 * b^(e mod 2)).
RECURSIVE IntPow(_, _)
IntPow(b, e) ==
    IF e = 0 \/ b = 1 THEN 1
    ELSE IF b = 0 THEN 0
    ELSE IF b = -1 THEN (IF e % 2 = 0 THEN 1 ELSE -1)
    ELSE IF e > 31 THEN MaxMagnitude + 1
    ELSE LET h == IntPow(b, e \div 2)
             f == IF e % 2 = 0 THEN 1 ELSE b
         IN IF Abs(h) > MaxMagnitude THEN MaxMagnitude + 1
            ELSE IF Abs(h * h) > MaxMagnitude THEN MaxMagnitude + 1
            ELSE IF Abs(h * h * f) > MaxMagnitude THEN MaxMagnitude + 1
            ELSE h * h * f

\* operator.pow
operator_pow(l, r) ==
    IF IsOutside(l) \/ IsOutside(r) THEN Ok(OutsideVal)
    ELSE IF IsNumber(l) /\ IsNumber(r)
    THEN IF l.n = 0 /\ r.n < 0
         THEN Raise("ZeroDivisionError", "0.0 cannot be raised to a negative power")
         ELSE IF r.d # 1
         THEN \* a fractional exponent: an irrational or a complex number
              Ok(OutsideVal)
         ELSE LET e == Abs(r.n)
                  pn == IntPow(l.n, e)
                  pd == IntPow(l.d, e)
              IN IF Abs(pn) > MaxMagnitude \/ pd > MaxMagnitude THEN Ok(OutsideVal)
                 ELSE IF r.n >= 0 THEN Ok(Rat(NumType(l, r), pn, pd))
                 ELSE Ok(Rat("float", (IF pn < 0 THEN -1 ELSE 1) * pd, Abs(pn)))
    ELSE Raise("TypeError", "unsupported operand type(s) for ** or pow(): '"
                             \o TypeName(l) \o "' and '" \o TypeName(r) \o "'")

\* operator.neg
operator_neg(x) ==
    IF IsOutside(x) THEN Ok(OutsideVal)
    ELSE IF IsNumber(x) THEN Ok(Rat(IF x.t = "float" THEN "float" ELSE "int", -x.n, x.d))
    ELSE Raise("TypeError", "bad operand type for unary -: '" \o TypeName(x) \o "'")

\* math.sqrt: exact for a perfect square, otherwise the irrational root of n,
\* kept symbolic (type "sqrt") until it is rounded.
math_sqrt(x) ==
    IF IsOutside(x) THEN Ok(OutsideVal)
    ELSE IF x.n < 0 THEN Raise("ValueError", "math domain error")
    ELSE IF x.d # 1 THEN Ok(OutsideVal)
    ELSE IF \E k \in 0..x.n : k * k = x.n
    THEN Ok(FloatVal(CHOOSE k \in 0..x.n : k * k = x.n))
    ELSE Ok([t |-> "sqrt", n |-> x.n, d |-> 1])

\* round(x, ndigits) of a float n/d: the multiple of 10^-ndigits nearest to it,
\* a tie going to the even multiple (float.__round__ rounds the exact binary
\* value; a tie of a value that is no binary fraction is outside the model).
RoundFloat(x, ndigits) ==
    LET scale == Pow10(ndigits)
        q == (x.n * scale) \div x.d
        r == (x.n * scale) % x.d
        k == IF 2 * r < x.d THEN q
             ELSE IF 2 * r > x.d THEN q + 1
             ELSE IF q % 2 = 0 THEN q ELSE q + 1
    IN IF 2 * r = x.d /\ ~IsPowerOfTwo(x.d) THEN OutsideVal
       ELSE Rat("float", k, scale)

\* round(sqrt(n), ndigits) for an irrational root: no tie can occur.
RoundSqrt(x, ndigits) ==
    LET N == x.n * Pow10(ndigits) * Pow10(ndigits)
        k == CHOOSE j \in 0..((x.n + 1) * Pow10(ndigits)) :
                 j * j <= N /\ N < (j + 1) * (j + 1)
    IN Rat("float", IF 4 * N > (2 * k + 1) * (2 * k + 1) THEN k + 1 ELSE k,
           Pow10(ndigits))

\* The builtin round(number, ndigits), ndigits >= 0.
round(x, ndigits) ==
    IF IsOutside(x) THEN Ok(OutsideVal)
    ELSE IF IsIntLike(x) THEN Ok(IntVal(x.n))
    ELSE IF x.t = "float" THEN Ok(RoundFloat(x, ndigits))
    ELSE IF x.t = "sqrt" THEN Ok(RoundSqrt(x, ndigits))
    ELSE Raise("TypeError", "type " \o TypeName(x) \o " doesn't define __round__ method")

(***************************************************************************)
(* What a tool invocation gives its caller: a number, an error string, or  *)
(* a fault (an exception that leaves the handler).                         *)
(***************************************************************************)
Number(v, applied) ==
    [kind |-> IF IsOutside(v) THEN "outside" ELSE "number",
     val |-> v, exc |-> "none", msg |-> "", applied |-> applied]
ErrorString(exc, msg, applied) ==
    [kind |-> "error", val |-> NoneVal, exc |-> exc, msg |-> msg, applied |-> applied]
Fault(exc, msg, applied) ==
    [kind |-> "fault", val |-> NoneVal, exc |-> exc, msg |-> msg, applied |-> applied]

\* `return round(result, MAX_PRECISION)` of a handler without a try block, where
\* res is the result of the statement before it.
ReturnRounded(res) ==
    IF res.exc # "none" THEN Fault(res.exc, res.msg, <<>>)
    ELSE LET rounded == round(res.val, MAX_PRECISION)
         IN IF rounded.exc # "none" THEN Fault(rounded.exc, rounded.msg, <<>>)
            ELSE Number(rounded.val, <<>>)

add(a, b) == ReturnRounded(operator_add(a, b))

subtract(a, b) == ReturnRounded(operator_sub(a, b))

multiply(a, b) == ReturnRounded(operator_mul(a, b))

\* divide without its guard on the denominator.
divide_unguarded(a, b) == ReturnRounded(operator_truediv(a, b))

divide(a, b) ==
    IF b.n = 0
    THEN ErrorString("none", "Error: Division by zero", <<>>)
    ELSE ReturnRounded(operator_truediv(a, b))

power(base, exponent) == ReturnRounded(operator_pow(base, exponent))

\* sqrt without its guard on the radicand.
sqrt_unguarded(n) == ReturnRounded(math_sqrt(n))

sqrt(n) ==
    IF n.n < 0
    THEN ErrorString("none", "Error: Cannot calculate square root of negative number", <<>>)
    ELSE ReturnRounded(math_sqrt(n))

(***************************************************************************)
(* ast.parse(expression, mode='eval').  An expression is the sequence of   *)
(* its tokens; the grammar is Python's, for the tokens of Tokens.  A node  *)
(* is <<"Constant", value>>, <<"BinOp", left, op, right>>,                 *)
(* <<"UnaryOp", op, operand>> or <<"Name">>.                               *)
(***************************************************************************)
NumberTokens == {"0", "1", "2", "3"}
TokenNumber(tok) ==
    CASE tok = "0" -> 0 [] tok = "1" -> 1 [] tok = "2" -> 2 [] tok = "3" -> 3

TermOp(tok) == CASE tok = "*" -> "Mult" [] tok = "/" -> "Div" [] tok = "%" -> "Mod"
ArithOp(tok) == CASE tok = "+" -> "Add" [] tok = "-" -> "Sub"
UnaryOpOf(tok) == CASE tok = "-" -> "USub" [] tok = "+" -> "UAdd"

Parsed(node, rest) == [ok |-> TRUE, node |-> node, rest |-> rest]

NextIs(ts, toks) == ts # <<>> /\ Head(ts) \in toks

\* Adjacent string literals are one constant.
RECURSIVE SkipStrings(_)
SkipStrings(ts) == IF NextIs(ts, {"'a'"}) THEN SkipStrings(Tail(ts)) ELSE ts

\* atom: NUMBER | STRING+ | 'True' | 'None' | NAME
p_atom(ts) ==
    IF ts = <<>> THEN NoParse
    ELSE LET h == Head(ts)
         IN IF h \in NumberTokens
            THEN Parsed(<<"Constant", IntVal(TokenNumber(h))>>, Tail(ts))
            ELSE IF h = "True" THEN Parsed(<<"Constant", BoolVal(1)>>, Tail(ts))
            ELSE IF h = "None" THEN Parsed(<<"Constant", NoneVal>>, Tail(ts))
            ELSE IF h = "'a'" THEN Parsed(<<"Constant", StrVal>>, SkipStrings(Tail(ts)))
            ELSE IF h = "x" THEN Parsed(<<"Name">>, Tail(ts))
            ELSE NoParse

RECURSIVE p_factor(_)
\* power: atom ['**' factor]
p_power_exponent(a, f) ==
    IF ~f.ok THEN NoParse ELSE Parsed(<<"BinOp", a.node, "Pow", f.node>>, f.rest)

p_power_atom(a) ==
    IF ~a.ok THEN NoParse
    ELSE IF NextIs(a.rest, {"**"}) THEN p_power_exponent(a, p_factor(Tail(a.rest)))
    ELSE a

p_power(ts) == p_power_atom(p_atom(ts))

\* factor: ('+' | '-') factor | power
p_factor_operand(op, f) ==
    IF ~f.ok THEN NoParse ELSE Parsed(<<"UnaryOp", op, f.node>>, f.rest)

p_factor(ts) ==
    IF NextIs(ts, {"-", "+"})
    THEN p_factor_operand(UnaryOpOf(Head(ts)), p_factor(Tail(ts)))
    ELSE p_power(ts)

\* term: factor (('*' | '/' | '%') factor)*, associating to the left
RECURSIVE p_term_rest(_, _)
p_term_right(left, op, f) ==
    IF ~f.ok THEN NoParse ELSE p_term_rest(<<"BinOp", left, op, f.node>>, f.rest)

p_term_rest(left, ts) ==
    IF NextIs(ts, {"*", "/", "%"})
    THEN p_term_right(left, TermOp(Head(ts)), p_factor(Tail(ts)))
    ELSE Parsed(left, ts)

p_term_left(f) == IF ~f.ok THEN NoParse ELSE p_term_rest(f.node, f.rest)

p_term(ts) == p_term_left(p_factor(ts))

\* arith_expr: term (('+' | '-') term)*, associating to the left
RECURSIVE p_arith_rest(_, _)
p_arith_right(left, op, t) ==
    IF ~t.ok THEN NoParse ELSE p_arith_rest(<<"BinOp", left, op, t.node>>, t.rest)

p_arith_rest(left, ts) ==
    IF NextIs(ts, {"+", "-"})
    THEN p_arith_right(left, ArithOp(Head(ts)), p_term(Tail(ts)))
    ELSE Parsed(left, ts)

p_arith_left(t) == IF ~t.ok THEN NoParse ELSE p_arith_rest(t.node, t.rest)

p_arith(ts) == p_arith_left(p_term(ts))

\* xor_expr: arith_expr ('^' arith_expr)*, associating to the left
RECURSIVE p_xor_rest(_, _)
p_xor_right(left, op, t) ==
    IF ~t.ok THEN NoParse ELSE p_xor_rest(<<"BinOp", left, op, t.node>>, t.rest)

\* A grammar in which '^' is the power operator.
p_xor_rest_as_pow(left, ts) ==
    IF NextIs(ts, {"^"})
    THEN p_xor_right(left, "Pow", p_arith(Tail(ts)))
    ELSE Parsed(left, ts)

p_xor_rest(left, ts) ==
    IF NextIs(ts, {"^"})
    THEN p_xor_right(left, "BitXor", p_arith(Tail(ts)))
    ELSE Parsed(left, ts)

p_xor_left(t) == IF ~t.ok THEN NoParse ELSE p_xor_rest(t.node, t.rest)

p_xor(ts) == p_xor_left(p_arith(ts))

\* The tree of the whole text, or no tree (SyntaxError).
ast_parse(expression) ==
    LET e == p_xor(expression)
    IN IF e.ok /\ e.rest = <<>> THEN e ELSE NoParse

(***************************************************************************)
(* calculate                                                               *)
(***************************************************************************)
\* The keys of the table `operators`.
operators == {"Add", "Sub", "Mult", "Div", "Pow", "USub"}

\* operators[op](left, right)
ApplyBinary(op, left, right) ==
    CASE op = "Add" -> operator_add(left, right)
      [] op = "Sub" -> operator_sub(left, right)
      [] op = "Mult" -> operator_mul(left, right)
      [] op = "Div" -> operator_truediv(left, right)
      [] op = "Pow" -> operator_pow(left, right)
      [] op = "USub" -> Raise("TypeError", "neg expected 1 argument, got 2")

\* operators[op](operand)
ApplyUnary(op, operand) ==
    IF op = "USub" THEN operator_neg(operand)
    ELSE Raise("TypeError", "expected 2 arguments, got 1")

ClassName(kind) == "<class 'ast." \o kind \o "'>"

Applied(res, applied) == [res EXCEPT !.applied = applied]

RECURSIVE eval_expr(_)
eval_expr(node) ==
    IF node[1] = "Constant" THEN Ok(node[2])
    ELSE IF node[1] = "BinOp"
    THEN LET left == eval_expr(node[2])
         IN IF left.exc # "none" THEN left
            ELSE LET right == eval_expr(node[4])
                     before == left.applied \o right.applied
                 IN IF right.exc # "none" THEN Applied(right, before)
                    ELSE IF node[3] \notin operators
                    THEN Applied(Raise("KeyError", ClassName(node[3])), before)
                    ELSE Applied(ApplyBinary(node[3], left.val, right.val),
                                 Append(before, node[3]))
    ELSE IF node[1] = "UnaryOp"
    THEN LET operand == eval_expr(node[3])
         IN IF operand.exc # "none" THEN operand
            ELSE IF node[2] \notin operators
            THEN Applied(Raise("KeyError", ClassName(node[2])), operand.applied)
            ELSE Applied(ApplyUnary(node[2], operand.val),
                         Append(operand.applied, node[2]))
    ELSE Raise("ValueError", "Unsupported operation: " \o ClassName(node[1]))

\* The except clause without KeyError.
Caught_without_KeyError == {"SyntaxError", "ValueError", "ZeroDivisionError"}

\* except (SyntaxError, ValueError, KeyError, ZeroDivisionError)
Caught == {"SyntaxError", "ValueError", "KeyError", "ZeroDivisionError"}

\* The end of a failed try block: the error string, or the exception goes on.
Except(res) ==
    IF res.exc \in Caught
    THEN ErrorString(res.exc, "Error: Invalid expression - " \o res.msg, res.applied)
    ELSE Fault(res.exc, res.msg, res.applied)

calculate(expression) ==
    LET tree == ast_parse(expression)
    IN IF ~tree.ok THEN Except(Raise("SyntaxError", "invalid syntax"))
       ELSE LET result == eval_expr(tree.node)
            IN IF result.exc # "none" THEN Except(result)
               ELSE LET rounded == round(result.val, MAX_PRECISION)
                    IN IF rounded.exc # "none"
                       THEN Except(Applied(rounded, result.applied))
                       ELSE Number(rounded.val, result.applied)

(***************************************************************************)
(* The server: the precision read at start-up, and one call slot a client. *)
(***************************************************************************)
\* The numeric tools, sqrt (of one operand) last.
NumericTools == <<"add", "subtract", "multiply", "divide", "power", "sqrt">>

\* The expressions of k tokens, each one of the tokens listed in toks.
Expressions(toks, k) ==
    {[i \in 1..k |-> toks[choice[i]]] : choice \in [1..k -> 1..Len(toks)]}

\* The registry of @mcp.tool: the handler a request is routed to.
Handler(req) ==
    CASE req.tool = "add" -> add(FloatVal(req.a), FloatVal(req.b))
      [] req.tool = "subtract" -> subtract(FloatVal(req.a), FloatVal(req.b))
      [] req.tool = "multiply" -> multiply(FloatVal(req.a), FloatVal(req.b))
      [] req.tool = "divide" -> divide(FloatVal(req.a), FloatVal(req.b))
      [] req.tool = "power" -> power(FloatVal(req.a), FloatVal(req.b))
      [] req.tool = "sqrt" -> sqrt(FloatVal(req.a))
      [] req.tool = "calculate" -> calculate(req.expression)

\* MAX_PRECISION = int(os.getenv("MAX_PRECISION", "10")), and no call in flight.
Init ==
    /\ MAX_PRECISION \in 0..MaxPrecision
    /\ calls = [c \in Clients |-> Idle]

\* The request req of client c arrives.
Receive(c, req) ==
    /\ calls[c].st = "idle"
    /\ Handler(req).kind # "outside"
    /\ calls' = [calls EXCEPT ![c] = [st |-> "pending", req |-> req, out |-> NoOutcome]]
    /\ UNCHANGED MAX_PRECISION

\* Client c calls a numeric tool with operands in args (floats, by the
\* handlers' annotations).
ReceiveTool(c, args) ==
    /\ calls[c].st = "idle"
    /\ \E i \in 1..Len(NumericTools), a \in args :
          \E b \in (IF NumericTools[i] = "sqrt" THEN {0} ELSE args) :
              Receive(c, [tool |-> NumericTools[i], a |-> a, b |-> b, expression |-> <<>>])

\* Client c calls calculate with an expression of at most n of the tokens toks.
ReceiveCalculate(c, toks, n) ==
    /\ calls[c].st = "idle"
    /\ \E k \in 0..n : \E e \in Expressions(toks, k) :
          Receive(c, [tool |-> "calculate", a |-> 0, b |-> 0, expression |-> e])

\* A handler that also writes the global precision.
Run_writing_precision(c, tool, out) ==
    /\ calls[c].st = "pending"
    /\ calls[c].req.tool = tool
    /\ calls' = [calls EXCEPT ![c].st = "returned", ![c].out = out]
    /\ MAX_PRECISION' = 0

\* The handler of tool runs, start to end, on the pending request of client c.
Run(c, tool, out) ==
    /\ calls[c].st = "pending"
    /\ calls[c].req.tool = tool
    /\ calls' = [calls EXCEPT ![c].st = "returned", ![c].out = out]
    /\ UNCHANGED MAX_PRECISION

Operand1(c) == FloatVal(calls[c].req.a)
Operand2(c) == FloatVal(calls[c].req.b)

InvokeAdd(c) == Run(c, "add", add(Operand1(c), Operand2(c)))
InvokeSubtract(c) == Run(c, "subtract", subtract(Operand1(c), Operand2(c)))
InvokeMultiply(c) == Run(c, "multiply", multiply(Operand1(c), Operand2(c)))
InvokeDivide(c) == Run(c, "divide", divide(Operand1(c), Operand2(c)))
InvokePower(c) == Run(c, "power", power(Operand1(c), Operand2(c)))
InvokeSqrt(c) == Run(c, "sqrt", sqrt(Operand1(c)))
InvokeCalculate(c) == Run(c, "calculate", calculate(calls[c].req.expression))

\* The outcome is sent to client c; its slot is free again.
Reply(c) ==
    /\ calls[c].st = "returned"
    /\ calls' = [calls EXCEPT ![c] = Idle]
    /\ UNCHANGED MAX_PRECISION

(***************************************************************************)
(* Spec: one client calls the numeric tools, one call after the other.     *)
(***************************************************************************)
Args == (-MaxArg)..MaxArg

Next ==
    \/ ReceiveTool(1, Args)
    \/ InvokeAdd(1)
    \/ InvokeSubtract(1)
    \/ InvokeMultiply(1)
    \/ InvokeDivide(1)
    \/ InvokePower(1)
    \/ InvokeSqrt(1)
    \/ Reply(1)

Spec == Init /\ [][Next]_vars

(***************************************************************************)
(* SpecCalc, SpecOps, SpecPow: one client calls calculate, on every        *)
(* expression of a few tokens.                                             *)
(***************************************************************************)
TokensCalc == <<"0", "1", "+", "/", "x", "'a'", "True">>
TokensOps == <<"1", "2", "x", "%", "+", "-", "/">>
TokensPow == <<"2", "3", "**", "^", "-">>

NextCalc ==
    \/ ReceiveCalculate(1, TokensCalc, MaxTokens)
    \/ InvokeCalculate(1)
    \/ Reply(1)

SpecCalc == Init /\ [][NextCalc]_vars

NextOps ==
    \/ ReceiveCalculate(1, TokensOps, MaxTokensOps)
    \/ InvokeCalculate(1)
    \/ Reply(1)

SpecOps == Init /\ [][NextOps]_vars

NextPow ==
    \/ ReceiveCalculate(1, TokensPow, MaxTokensPow)
    \/ InvokeCalculate(1)
    \/ Reply(1)

SpecPow == Init /\ [][NextPow]_vars

(***************************************************************************)
(* SpecConc: the host interleaves the calls of all clients, of all tools.  *)
(***************************************************************************)
ConcExpressions == <<(<<"1", "/", "3">>), (<<"1", "/", "0">>), (<<"x">>)>>

\* Client c calls calculate with one of the expressions listed in exprs.
ReceiveListed(c, exprs) ==
    /\ calls[c].st = "idle"
    /\ \E i \in 1..Len(exprs) :
          Receive(c, [tool |-> "calculate", a |-> 0, b |-> 0, expression |-> exprs[i]])

NextConc ==
    \E c \in Clients :
        \/ ReceiveTool(c, 1..MaxConcArg)
        \/ ReceiveListed(c, ConcExpressions)
        \/ InvokeAdd(c)
        \/ InvokeSubtract(c)
        \/ InvokeMultiply(c)
        \/ InvokeDivide(c)
        \/ InvokePower(c)
        \/ InvokeSqrt(c)
        \/ InvokeCalculate(c)
        \/ Reply(c)

SpecConc == Init /\ [][NextConc]_vars

(***************************************************************************)
(* Properties.                                                             *)
(***************************************************************************)
Returned(c, tool) == calls[c].st = "returned" /\ calls[c].req.tool = tool

\* The tree calculate has built for the call of client c.
TreeOf(c) == ast_parse(calls[c].req.expression)

PermittedBinary == {"Add", "Sub", "Mult", "Div", "Pow"}

\* Some node of the tree is no numeric literal, no BinaryOp over the five
\* permitted operators and no unary negation.
RECURSIVE HasDisallowed(_)
HasDisallowed(node) ==
    IF node[1] = "Constant" THEN node[2].t \notin {"int", "float"}
    ELSE IF node[1] = "BinOp"
    THEN node[3] \notin PermittedBinary \/ HasDisallowed(node[2]) \/ HasDisallowed(node[4])
    ELSE IF node[1] = "UnaryOp"
    THEN node[2] # "USub" \/ HasDisallowed(node[3])
    ELSE TRUE

\* Some node of the tree has a shape other than Constant, BinOp and UnaryOp.
RECURSIVE HasOtherShape(_)
HasOtherShape(node) ==
    IF node[1] = "Constant" THEN FALSE
    ELSE IF node[1] = "BinOp" THEN HasOtherShape(node[2]) \/ HasOtherShape(node[4])
    ELSE IF node[1] = "UnaryOp" THEN HasOtherShape(node[3])
    ELSE TRUE

\* The operators of the BinOp and UnaryOp nodes of the tree.
RECURSIVE OperatorsOf(_)
OperatorsOf(node) ==
    IF node[1] = "BinOp"
    THEN {node[3]} \cup OperatorsOf(node[2]) \cup OperatorsOf(node[4])
    ELSE IF node[1] = "UnaryOp" THEN {node[2]} \cup OperatorsOf(node[3])
    ELSE {}

\* Reduction reaches a Div node whose right operand has reduced to the number 0.
RECURSIVE ReachesDivisionByZero(_)
ReachesDivisionByZero(node) ==
    IF node[1] = "BinOp"
    THEN \/ ReachesDivisionByZero(node[2])
         \/ /\ eval_expr(node[2]).exc = "none"
            /\ \/ ReachesDivisionByZero(node[4])
               \/ /\ node[3] = "Div"
                  /\ eval_expr(node[4]).exc = "none"
                  /\ IsNumber(eval_expr(node[4]).val)
                  /\ eval_expr(node[4]).val.n = 0
    ELSE IF node[1] = "UnaryOp" THEN ReachesDivisionByZero(node[3])
    ELSE FALSE

ErrorPrefix == "Error: Invalid expression - "

\* C1: calculate never lets an exception out: every call returns a number or
\* an error string.
C1_CalculateNeverFaults ==
    Returned(1, "calculate") => calls[1].out.kind \in {"number", "error"}

\* C2: a tree with a node outside the allow-list never gives a numeric outcome
\* (the claim also wants an error string returned; already this half fails).
C2_DisallowedNeverNumeric ==
    (Returned(1, "calculate") /\ TreeOf(1).ok /\ HasDisallowed(TreeOf(1).node))
        => calls[1].out.kind # "number"

\* C3: validation precedes reduction: in a call whose tree has a node outside
\* the allow-list, or that ends in an unsupported-operation rejection, no
\* operator function has been applied, and the call does not end in a
\* reduction error.
C3_NoReductionBeforeRejection ==
    (/\ Returned(1, "calculate")
     /\ TreeOf(1).ok
     /\ \/ HasDisallowed(TreeOf(1).node)
        \/ calls[1].out.exc \in {"ValueError", "KeyError"})
        => /\ calls[1].out.applied = <<>>
           /\ calls[1].out.exc # "ZeroDivisionError"

\* C10: when reduction reaches a Div node whose right operand has reduced to 0,
\* the call returns the division-by-zero error string.
C10_DivisionByZeroReported ==
    (/\ Returned(1, "calculate")
     /\ TreeOf(1).ok
     /\ ReachesDivisionByZero(TreeOf(1).node))
        => /\ calls[1].out.kind = "error"
           /\ calls[1].out.exc = "ZeroDivisionError"

\* The classes a message "Unsupported operation: <node kind>" may name.
NodeKinds == <<"Name", "BinOp", "UnaryOp", "Mod", "BitXor", "UAdd">>

\* C4, as claimed: every rejection of a non-permitted node or operator is a
\* ValueError with the message "Unsupported operation: <node kind>".
C4_RejectionIsValueError ==
    (/\ Returned(1, "calculate")
     /\ TreeOf(1).ok
     /\ calls[1].out.exc \in {"ValueError", "KeyError"})
        => /\ calls[1].out.exc = "ValueError"
           /\ \E i \in 1..Len(NodeKinds) :
                 calls[1].out.msg =
                     ErrorPrefix \o "Unsupported operation: " \o ClassName(NodeKinds[i])

\* C4, amended: a node of a non-permitted shape is rejected with a ValueError
\* "Unsupported operation: <node class>"; a BinOp or UnaryOp whose operator is
\* not a key of the table is rejected with a KeyError whose message is the
\* operator's class alone.  Both come back as "Error: Invalid expression - ...",
\* and a tree of numeric literals with such a node never gives a number.
C4_RejectionKinds ==
    (Returned(1, "calculate") /\ TreeOf(1).ok) =>
        LET tree == TreeOf(1).node
            out == calls[1].out
        IN /\ out.exc = "ValueError" =>
                /\ HasOtherShape(tree)
                /\ out.kind = "error"
                /\ out.msg = ErrorPrefix \o "Unsupported operation: " \o ClassName("Name")
           /\ out.exc = "KeyError" =>
                /\ out.kind = "error"
                /\ \E op \in OperatorsOf(tree) \ operators :
                      out.msg = ErrorPrefix \o ClassName(op)
           /\ (HasOtherShape(tree) \/ OperatorsOf(tree) \ operators # {}) =>
                /\ out.kind = "error"
                /\ out.exc \in {"ValueError", "KeyError", "ZeroDivisionError"}

\* C4: a call has ended in the rejection of the operator of "1 % 2".
C4_Witness ==
    /\ Returned(1, "calculate")
    /\ calls[1].req.expression = <<"1", "%", "2">>
    /\ calls[1].out.kind = "error"
    /\ calls[1].out.exc = "KeyError"
    /\ calls[1].out.msg = "Error: Invalid expression - <class 'ast.Mod'>"

\* C7, as claimed: calculate("2 ^ 3 ^ 2") is the number 512 or the number 64.
C7_CaretIsPower ==
    (Returned(1, "calculate") /\ calls[1].req.expression = <<"2", "^", "3", "^", "2">>)
        => /\ calls[1].out.kind = "number"
           /\ calls[1].out.val.d = 1
           /\ calls[1].out.val.n \in {512, 64}

\* C7, amended: the power operator of calculate is `**`, associating to the
\* right: calculate("2 ** 3 ** 2") is 512.  `^` is the bitwise xor of the
\* grammar, which is no key of the operator table: an expression with a `^`
\* never gives a number, and calculate("2 ^ 3 ^ 2") returns
\* "Error: Invalid expression - <class 'ast.BitXor'>".
C7_StarStarIsPower ==
    Returned(1, "calculate") =>
        LET e == calls[1].req.expression
            out == calls[1].out
        IN /\ (\E i \in 1..Len(e) : e[i] = "^") => out.kind = "error"
           /\ e = <<"2", "^", "3", "^", "2">> =>
                /\ out.exc = "KeyError"
                /\ out.msg = "Error: Invalid expression - <class 'ast.BitXor'>"
           /\ e = <<"2", "**", "3", "**", "2">> =>
                /\ out.kind = "number"
                /\ out.val = IntVal(512)

\* C7: calculate("2 ^ 3 ^ 2") has returned.
C7_Witness ==
    /\ Returned(1, "calculate")
    /\ calls[1].req.expression = <<"2", "^", "3", "^", "2">>
    /\ calls[1].out.kind = "error"

\* v is num/den rounded to ndigits decimal digits: a multiple of 10^-ndigits,
\* at most half a unit of the last digit from num/den, and the even one of
\* the two nearest multiples when num/den lies half-way.
IsRounding(v, num, den, ndigits) ==
    LET scale == Pow10(ndigits)
        k == (v.n * scale) \div v.d
        twiceError == 2 * Abs(k * den - num * scale)
    IN /\ (v.n * scale) % v.d = 0
       /\ twiceError <= Abs(den)
       /\ twiceError = Abs(den) => k % 2 = 0

\* v is the square root of n rounded to ndigits decimal digits.
IsRoundedRoot(v, n, ndigits) ==
    LET scale == Pow10(ndigits)
        k == (v.n * scale) \div v.d
    IN /\ (v.n * scale) % v.d = 0
       /\ k >= 0
       /\ k = 0 \/ (2 * k - 1) * (2 * k - 1) <= 4 * n * scale * scale
       /\ 4 * n * scale * scale <= (2 * k + 1) * (2 * k + 1)

\* C5: divide(a, 0) returns "Error: Division by zero" for every a, and
\* divide(a, b) returns the number round(a / b, MAX_PRECISION) for every b # 0.
C5_Divide ==
    Returned(1, "divide") =>
        LET req == calls[1].req
            out == calls[1].out
        IN /\ req.b = 0 => (out.kind = "error" /\ out.msg = "Error: Division by zero")
           /\ req.b # 0 =>
                (out.kind = "number" /\ IsRounding(out.val, req.a, req.b, MAX_PRECISION))

\* C5: divide has returned for a zero denominator.
C5_Witness ==
    /\ Returned(1, "divide")
    /\ calls[1].req.b = 0
    /\ calls[1].out.kind = "error"

C8_ToolsAlwaysNumeric ==
    (calls[1].st = "returned"
        /\ calls[1].req.tool \in {"add", "subtract", "multiply", "power"}) =>
        LET req == calls[1].req
            out == calls[1].out
        IN /\ out.kind = "number"
           /\ req.tool = "add" => out.val = FloatVal(req.a + req.b)
           /\ req.tool = "subtract" => out.val = FloatVal(req.a - req.b)
           /\ req.tool = "multiply" => out.val = FloatVal(req.a * req.b)
           /\ (req.tool = "power" /\ req.b >= 0) => out.val = FloatVal(IntPow(req.a, req.b))
           /\ (req.tool = "power" /\ req.b < 0) =>
                IsRounding(out.val, 1, IntPow(req.a, -req.b), MAX_PRECISION)

\* Two calls of the same tool with the same arguments that have both returned
\* have the same outcome.
SameRequestSameOutcome ==
    \A c1 \in Clients, c2 \in Clients :
        (/\ calls[c1].st = "returned"
         /\ calls[c2].st = "returned"
         /\ calls[c1].req = calls[c2].req) => calls[c1].out = calls[c2].out

\* C9: no step of the server writes MAX_PRECISION, a step touches the slot of
\* one call only, and under every interleaving the outcome of a call depends
\* on its own arguments alone: equal requests have equal outcomes.
C9_Reentrant ==
    [][/\ MAX_PRECISION' = MAX_PRECISION
       /\ \A c1 \in Clients, c2 \in Clients :
             (calls'[c1] # calls[c1] /\ calls'[c2] # calls[c2]) => c1 = c2
       /\ SameRequestSameOutcome']_vars

\* C9: two clients have had the same expression evaluated, one call pending
\* while the other was handled, and both have their number.
C9_Witness ==
    /\ Returned(1, "calculate")
    /\ Returned(2, "calculate")
    /\ calls[1].req = calls[2].req
    /\ calls[1].out.kind = "number"
    /\ calls[1].out = calls[2].out

====
